---- MODULE Spec2Model ----
(***************************************************************************)
(* Model of the session mediation server (apps/api/index.js), the          *)
(* conversation manager and the Gemini Live binding                        *)
(* (apps/api/gemini-live.js).                                              *)
(*                                                                         *)
(* Scheduling: Node.js runs every event handler to completion.  Handlers   *)
(* that only await already-resolved promises (pause, resume, close,        *)
(* injectContext) continue in the microtask queue, before any other        *)
(* socket event is dispatched.  The variable pc holds the position of the  *)
(* handler that is running; every event action requires pc.at = "idle".    *)
(* Awaits on real I/O (generateSummary, saveCallSummary) release the event *)
(* loop: their continuations are separate actions (closeTask, tasks).      *)
(*                                                                         *)
(* Spec        connections, commands and audio routing of one session      *)
(* SpecSession the transcript and analytics handlers of the session        *)
(* SpecBinding handleMessage and the debounce timer of GeminiLiveSession   *)
(***************************************************************************)
EXTENDS Naturals, Integers, Sequences, FiniteSets, Bags, TLC

\* ------------------------------------------------------------------ bounds
MaxTranscript == 2

\* ------------------------------------------------------------- value sets
NULL == "null"
SessionId == "s1"
UnknownSessionId == "nosuch"
CommandSessionIds == {SessionId, UnknownSessionId}
CustWs == {"c1", "c2"}
SupWs == {"u1", "u2"}
SupervisorIds == {"sup42"}
Contexts == {"", "ctx"}

VARIABLES
  sessions,      \* ConversationManager.sessions : Map id -> session record
  supervisors,   \* ConversationManager.supervisors, in insertion order
  cust,          \* readyState of each customer socket
  sup,           \* readyState of each supervisor socket
  closeTask,     \* position of the customer close handler of each socket
  callSummaries, \* the rows of call_summaries: the session id of each row
  pc,            \* position of the running supervisor command handler
  sent,          \* messages written by the last step, in order
  last,          \* the event handled by the last step
  tasks,         \* bag of the pending timers and promises of the session's handlers
  live,          \* the transcription pipeline of an open GeminiLiveSession
  now,           \* Date.now(), in ms since the pipeline was set up
  aiLog          \* the sentences that the pipeline has emitted as "response", with their time

\* the state that the connection and command handlers never touch
aux == <<tasks, live, now, aiLog>>

vars == <<sessions, supervisors, cust, sup, closeTask, callSummaries, pc, sent, last, aux>>

\* ---------------------------------------------------------------- messages
Msg(to, type, data, mode, status) ==
  [to |-> to, type |-> type, data |-> data, mode |-> mode, status |-> status]

Plain(to, type, data) == Msg(to, type, data, NULL, NULL)

Idle == [at |-> "idle", ws |-> NULL, arg |-> NULL]
Ev(ev, ws, arg) == [ev |-> ev, ws |-> ws, arg |-> arg]

\* readyState === 1
IsOpen(state) == state = "open"

\* constructor and setupSession(): the fields that handleMessage and the
\* debounce timer use; the pipeline's texts are sequences of characters
NoText == <<>>
NoTimer == [armed |-> FALSE, due |-> 0]
NewPipeline ==
  [isPaused |-> FALSE, transcriptionBuffer |-> NoText,
   pendingInputTranscription |-> NoText, transcriptionTimeout |-> NoTimer,
   recentAIResponses |-> <<>>]

\* the pipeline state, which the session handlers never touch
pipeline == <<live, now, aiLog>>

\* ------------------------------------------------- GeminiLiveSession (binding)
\* constructor + initialize(): the socket is created and is connecting
\* listeners: how often the handlers of the session have been registered
NewGeminiLiveSession ==
  [ws |-> "connecting", isActive |-> FALSE, isPaused |-> FALSE, closeCalled |-> FALSE,
   listeners |-> 0]

\* geminiSession.on("response" | "audio" | "input_transcription" | "error")
registerHandlers(g) == [g EXCEPT !.listeners = @ + 1]

\* emit: every registered listener runs, in the order of registration
RECURSIVE Times(_, _)
Times(n, out) == IF n = 0 THEN <<>> ELSE out \o Times(n - 1, out)
emit(g, out) == Times(g.listeners, out)

pauseNoop(g) == g
pause(g) == [g EXCEPT !.isPaused = TRUE]

resumeNoop(g) == g
resume(g) == [g EXCEPT !.isPaused = FALSE]

\* close(): isActive = false; ws.close(). An open socket starts its closing
\* handshake and still delivers the messages that arrive before the
\* provider's close; a socket that has not opened yet is aborted and
\* delivers an error and nothing else
close(g) ==
  [g EXCEPT !.isActive = FALSE,
            !.ws = IF g.ws = "open" THEN "closing"
                   ELSE IF g.ws = "connecting" THEN "aborted"
                   ELSE g.ws,
            !.closeCalled = TRUE]

\* sendJson: written only when the provider socket is OPEN
sendJson(g, type, data) ==
  IF g.ws = "open" THEN <<Plain("provider", type, data)>> ELSE <<>>

\* sendAudio / sendText: dropped when not active or paused
sendAudio(g, frame) ==
  IF ~g.isActive \/ g.isPaused THEN <<>> ELSE sendJson(g, "realtime_input", frame)

sendText(g, text) ==
  IF ~g.isActive \/ g.isPaused THEN <<>> ELSE sendJson(g, "client_content", text)

injectContext(g, context) == sendText(g, context)

\* handleMessage: `if (this.isPaused) return;`
handleMessageDropsUngated(g) == FALSE
handleMessageDrops(g) == g.isPaused

\* the state of the binding in the terms of the data model
BindingState(g) ==
  IF g.isPaused THEN "paused"
  ELSE IF g.closeCalled THEN "closed"
  ELSE IF g.ws \in {"errored", "closed"} THEN "failed"
  ELSE IF g.isActive THEN "ready"
  ELSE "connecting"

\* ------------------------------------------------------ ConversationManager
createSession(id) ==
  [id |-> id, status |-> "waiting", mode |-> "ai",
   customerWs |-> NULL, supervisorWs |-> NULL,
   geminiSession |-> NULL,
   transcript |-> <<>>, customerConnected |-> FALSE,
   supervisorId |-> NULL, takenOverBy |-> NULL,
   frustrationLevel |-> 0, sentimentScore |-> 0, endedBy |-> NULL,
   endedAt |-> 0, createdAt |-> now]

HasSession(id) == id \in DOMAIN sessions
getSession(id) == sessions[id]

\* Object.assign(session, updates)
updateSession(s, updates) ==
  [f \in DOMAIN s |-> IF f \in DOMAIN updates THEN updates[f] ELSE s[f]]

\* serializeSession: the fields of the snapshot that the model's messages carry
serializeSession(to, type, s) == Msg(to, type, "snapshot", s.mode, s.status)

Put(id, s) == (id :> s) @@ sessions

\* --------------------------------------------------- broadcastToSupervisors
\* a loop that ends at the first socket that is not open
RECURSIVE SendEachUntilClosed(_, _)
SendEachUntilClosed(wss, m) ==
  IF wss = <<>> \/ ~IsOpen(sup[Head(wss)]) THEN <<>>
  ELSE <<[m EXCEPT !.to = Head(wss)]>> \o SendEachUntilClosed(Tail(wss), m)

\* supervisors.forEach: send to every socket whose readyState is OPEN
RECURSIVE SendEach(_, _)
SendEach(wss, m) ==
  IF wss = <<>> THEN <<>>
  ELSE (IF IsOpen(sup[Head(wss)]) THEN <<[m EXCEPT !.to = Head(wss)]>> ELSE <<>>)
       \o SendEach(Tail(wss), m)

\* JSON.stringify throws on a payload holding socket objects; the catch
\* branch then sends {type, sessionId, error}
broadcastToSupervisors(m) ==
  IF m.data = "rawSession"
  THEN SendEach(supervisors, Plain(NULL, m.type, "serializationError"))
  ELSE SendEach(supervisors, m)

\* customerWs?.readyState === 1
CustomerOpen(s) == s.customerWs # NULL /\ IsOpen(cust[s.customerWs])
ToCustomer(s, m) == IF CustomerOpen(s) THEN <<[m EXCEPT !.to = s.customerWs]>> ELSE <<>>

SupervisorOpen(s) == s.supervisorWs # NULL /\ IsOpen(sup[s.supervisorWs])
ToController(s, m) == IF SupervisorOpen(s) THEN <<[m EXCEPT !.to = s.supervisorWs]>> ELSE <<>>

\* -------------------------------------------------------------------- Init
Init ==
  /\ sessions = <<>>
  /\ supervisors = <<>>
  /\ cust = [c \in CustWs |-> "new"]
  /\ sup = [u \in SupWs |-> "new"]
  /\ closeTask = [c \in CustWs |-> "none"]
  /\ callSummaries = <<>>
  /\ pc = Idle
  /\ sent = <<>>
  /\ last = Ev("init", NULL, NULL)
  /\ tasks = EmptyBag
  /\ live = NewPipeline
  /\ now = 0
  /\ aiLog = {}

\* ------------------------------------------------ handleCustomerConnection
\* session lookup or creation, then `session.customerWs = ws` and
\* updateSession({status: "active", customerConnected: true})
attachCustomerRegisters(c) ==
  LET s0 == IF HasSession(SessionId) THEN getSession(SessionId)
            ELSE [createSession(SessionId) EXCEPT !.geminiSession = NewGeminiLiveSession]
  IN updateSession([s0 EXCEPT !.customerWs = c, !.geminiSession = registerHandlers(@)],
                   [status |-> "active", customerConnected |-> TRUE])
attachCustomer(c) ==
  LET s0 == IF HasSession(SessionId) THEN getSession(SessionId)
            ELSE [createSession(SessionId) EXCEPT
                    !.geminiSession = registerHandlers(NewGeminiLiveSession)]
  IN updateSession([s0 EXCEPT !.customerWs = c],
                   [status |-> "active", customerConnected |-> TRUE])

CustomerConnect(c) ==
  /\ pc = Idle
  /\ cust[c] = "new"
  /\ LET s == attachCustomer(c) IN
       /\ sessions' = Put(SessionId, s)
       /\ sent' = broadcastToSupervisors(serializeSession(NULL, "session_update", s))
                    \o <<Msg(c, "session_init", NULL, s.mode, NULL)>>
  /\ cust' = [cust EXCEPT ![c] = "open"]
  /\ last' = Ev("customer_connect", c, NULL)
  /\ UNCHANGED <<supervisors, sup, closeTask, callSummaries, pc, aux>>

\* the call of sendAudio, followed by what sendAudio writes to the provider
callSendAudio(g, frame) == <<Plain("binding", "sendAudio", frame)>> \o sendAudio(g, frame)

\* customer ws.on("message"), data.type === "audio"
routeCustomerAudioBoth(s, frame) ==
  ToController(s, Plain(NULL, "customer_audio", frame)) \o callSendAudio(s.geminiSession, frame)
routeCustomerAudio(s, frame) ==
  IF s.mode = "human"
  THEN ToController(s, Plain(NULL, "customer_audio", frame))
  ELSE callSendAudio(s.geminiSession, frame)

CustomerAudio(c) ==
  /\ pc = Idle
  /\ cust[c] = "open"
  /\ sent' = routeCustomerAudio(getSession(SessionId), "custFrame")
  /\ last' = Ev("customer_audio", c, NULL)
  /\ UNCHANGED <<sessions, supervisors, cust, sup, closeTask, callSummaries, pc, aux>>

\* customer ws.on("close"): `session.customerWs = null`,
\* updateSession({customerConnected: false})
detachCustomer(s, c) ==
  updateSession([s EXCEPT !.customerWs = NULL], [customerConnected |-> FALSE])

CustomerClose(c) ==
  /\ pc = Idle
  /\ cust[c] \in {"open", "closing"}
  /\ LET s == detachCustomer(getSession(SessionId), c) IN
       /\ sessions' = Put(SessionId, s)
       /\ IF Len(s.transcript) > 0
          THEN /\ closeTask' = [closeTask EXCEPT ![c] = "summary"]
               /\ sent' = <<>>
          ELSE /\ closeTask' = [closeTask EXCEPT ![c] = "done"]
               /\ sent' = broadcastToSupervisors(serializeSession(NULL, "session_update", s))
  /\ cust' = [cust EXCEPT ![c] = "closed"]
  /\ last' = Ev("customer_close", c, NULL)
  /\ UNCHANGED <<supervisors, sup, callSummaries, pc, aux>>

\* generateSummary resolved (it never rejects); saveCallSummary is started
CustomerCloseSummary(c) ==
  /\ pc = Idle
  /\ closeTask[c] = "summary"
  /\ closeTask' = [closeTask EXCEPT ![c] = "save"]
  /\ sent' = <<>>
  /\ last' = Ev("close_summary", c, NULL)
  /\ UNCHANGED <<sessions, supervisors, cust, sup, callSummaries, pc, aux>>

\* INSERT INTO call_summaries: session_id is UNIQUE, a second row is rejected
saveCallSummary(rows, id) ==
  IF \E i \in DOMAIN rows : rows[i] = id
  THEN [ok |-> FALSE, rows |-> rows]
  ELSE [ok |-> TRUE, rows |-> Append(rows, id)]

\* saveCallSummary settled: the INSERT fails on a duplicate session_id
\* (UNIQUE) or on a database error
CustomerCloseSave(c, dbOk) ==
  /\ pc = Idle
  /\ closeTask[c] = "save"
  /\ closeTask' = [closeTask EXCEPT ![c] = "done"]
  /\ LET s == getSession(SessionId)
         update == broadcastToSupervisors(serializeSession(NULL, "session_update", s))
         saved == saveCallSummary(callSummaries, SessionId)
     IN IF dbOk /\ saved.ok
        THEN /\ callSummaries' = saved.rows
             /\ sent' = broadcastToSupervisors(Plain(NULL, "call_ended", "summary")) \o update
        ELSE /\ callSummaries' = callSummaries
             /\ sent' = update
  /\ last' = Ev("close_save", c, IF dbOk THEN "ok" ELSE "fail")
  /\ UNCHANGED <<sessions, supervisors, cust, sup, pc, aux>>

\* ---------------------------------------------- handleSupervisorConnection
SupervisorConnect(u) ==
  /\ pc = Idle
  /\ sup[u] = "new"
  /\ supervisors' = Append(supervisors, u)
  /\ sup' = [sup EXCEPT ![u] = "open"]
  /\ sent' = IF HasSession(SessionId)
             THEN <<serializeSession(u, "sessions_list", getSession(SessionId))>>
             ELSE <<Plain(u, "sessions_list", "empty")>>
  /\ last' = Ev("supervisor_connect", u, NULL)
  /\ UNCHANGED <<sessions, cust, closeTask, callSummaries, pc, aux>>

removeSupervisor(u) == SelectSeq(supervisors, LAMBDA w : w # u)

SupervisorClose(u) ==
  /\ pc = Idle
  /\ sup[u] \in {"open", "closing"}
  /\ supervisors' = removeSupervisor(u)
  /\ sup' = [sup EXCEPT ![u] = "closed"]
  /\ sent' = <<>>
  /\ last' = Ev("supervisor_close", u, NULL)
  /\ UNCHANGED <<sessions, cust, closeTask, callSummaries, pc, aux>>

CommandTypes == {"takeover", "handback", "supervisor_audio", "supervisor_message",
                 "inject_context", "end_call", "get_sessions"}

\* `if (!session) { ws.send(error "Session not found"); return; }`
SupervisorSessionNotFound(u, type, sid) ==
  /\ pc = Idle
  /\ sup[u] = "open"
  /\ ~HasSession(sid)
  /\ sent' = <<Plain(u, "error", "Session not found")>>
  /\ last' = Ev("session_not_found", u, type)
  /\ UNCHANGED <<sessions, supervisors, cust, sup, closeTask, callSummaries, pc, aux>>

\* a supervisor command addressed to an existing session may start
CanCommand(u) ==
  /\ pc = Idle
  /\ sup[u] = "open"
  /\ HasSession(SessionId)

\* `session.supervisorInterventions || 0`: the count that the summary reads
supervisorInterventions(s) ==
  IF "supervisorInterventions" \in DOMAIN s THEN s.supervisorInterventions ELSE 0

\* ------------------------------------------------------------ case "takeover"
\* the statements before `await session.geminiSession?.pause()` returns
takeoverBeginLate(s, u, supervisorId) ==
  [s EXCEPT !.supervisorWs = u, !.supervisorId = supervisorId,
            !.geminiSession = pause(@)]
takeoverBegin(s, u, supervisorId) ==
  [s EXCEPT !.mode = "human", !.supervisorWs = u, !.supervisorId = supervisorId,
            !.geminiSession = pause(@)]

Takeover(u, supervisorId) ==
  /\ CanCommand(u)
  /\ sessions' = Put(SessionId, takeoverBegin(getSession(SessionId), u, supervisorId))
  /\ pc' = [at |-> "takeover_notify", ws |-> u, arg |-> supervisorId]
  /\ sent' = <<>>
  /\ last' = Ev("takeover", u, supervisorId)
  /\ UNCHANGED <<supervisors, cust, sup, closeTask, callSummaries, aux>>

\* notify the customer, updateSession({mode, takenOverBy}), broadcast
TakeoverNotify ==
  /\ pc.at = "takeover_notify"
  /\ LET s0 == getSession(SessionId)
         s1 == updateSession(s0, [mode |-> "human", takenOverBy |-> pc.arg])
     IN /\ sessions' = Put(SessionId, s1)
        /\ sent' = ToCustomer(s0, Msg(NULL, "mode_change", NULL, "human", NULL))
                     \o broadcastToSupervisors(serializeSession(NULL, "session_update", s1))
  /\ pc' = Idle
  /\ UNCHANGED <<supervisors, cust, sup, closeTask, callSummaries, last, aux>>

\* ------------------------------------------------------------ case "handback"
\* the statements before `await session.geminiSession?.resume()` returns
handbackBeginPaused(s) ==
  [s EXCEPT !.mode = "ai", !.supervisorWs = NULL, !.supervisorId = NULL]
handbackBegin(s) ==
  [s EXCEPT !.mode = "ai", !.supervisorWs = NULL, !.supervisorId = NULL,
            !.geminiSession = resume(@)]

Handback(u, context) ==
  /\ CanCommand(u)
  /\ sessions' = Put(SessionId, handbackBegin(getSession(SessionId)))
  /\ pc' = [at |-> "handback_inject", ws |-> u, arg |-> context]
  /\ sent' = <<>>
  /\ last' = Ev("handback", u, context)
  /\ UNCHANGED <<supervisors, cust, sup, closeTask, callSummaries, aux>>

\* `if (data.context) await session.geminiSession?.injectContext(data.context)`
HandbackInject ==
  /\ pc.at = "handback_inject"
  /\ sent' = IF pc.arg # "" THEN injectContext(getSession(SessionId).geminiSession, pc.arg)
             ELSE <<>>
  /\ pc' = [pc EXCEPT !.at = "handback_notify"]
  /\ UNCHANGED <<sessions, supervisors, cust, sup, closeTask, callSummaries, last, aux>>

\* notify the customer, updateSession({mode, takenOverBy}), broadcast
HandbackNotify ==
  /\ pc.at = "handback_notify"
  /\ LET s0 == getSession(SessionId)
         s1 == updateSession(s0, [mode |-> "ai", takenOverBy |-> NULL])
     IN /\ sessions' = Put(SessionId, s1)
        /\ sent' = ToCustomer(s0, Msg(NULL, "mode_change", NULL, "ai", NULL))
                     \o broadcastToSupervisors(serializeSession(NULL, "session_update", s1))
  /\ pc' = Idle
  /\ UNCHANGED <<supervisors, cust, sup, closeTask, callSummaries, last, aux>>

\* ---------------------------------------------------- case "supervisor_audio"
forwardSupervisorAudio(s, u, frame) == ToCustomer(s, Plain(NULL, "audio", frame))

SupervisorAudio(u) ==
  /\ CanCommand(u)
  /\ sent' = forwardSupervisorAudio(getSession(SessionId), u, "supFrame")
  /\ last' = Ev("supervisor_audio", u, NULL)
  /\ UNCHANGED <<sessions, supervisors, cust, sup, closeTask, callSummaries, pc, aux>>

\* -------------------------------------------------- case "supervisor_message"
pushTranscriptFront(s, role, content) ==
  [s EXCEPT !.transcript = <<[role |-> role, content |-> content]>> \o @]
pushTranscript(s, role, content) ==
  [s EXCEPT !.transcript = Append(@, [role |-> role, content |-> content])]
\* the push of a handler that runs once per registration
pushByListeners(s, role, content) ==
  [s EXCEPT !.transcript = @ \o emit(s.geminiSession, <<[role |-> role, content |-> content]>>)]

SupervisorMessage(u) ==
  /\ CanCommand(u)
  /\ Len(getSession(SessionId).transcript) < MaxTranscript
  /\ LET s == pushTranscript(getSession(SessionId), "supervisor", "hello") IN
       /\ sessions' = Put(SessionId, s)
       /\ sent' = ToCustomer(s, Plain(NULL, "supervisor_message", "hello"))
  /\ last' = Ev("supervisor_message", u, NULL)
  /\ UNCHANGED <<supervisors, cust, sup, closeTask, callSummaries, pc, aux>>

\* ------------------------------------------------------------ case "end_call"
\* notify and close the customer socket, then geminiSession.close()
EndCall(u) ==
  /\ CanCommand(u)
  /\ LET s == getSession(SessionId) IN
       /\ sent' = ToCustomer(s, Plain(NULL, "session_ended", "ended by supervisor"))
       /\ cust' = IF CustomerOpen(s) THEN [cust EXCEPT ![s.customerWs] = "closing"] ELSE cust
       /\ sessions' = Put(SessionId, [s EXCEPT !.geminiSession = close(@)])
  /\ pc' = [at |-> "end_call_update", ws |-> u, arg |-> NULL]
  /\ last' = Ev("end_call", u, NULL)
  /\ UNCHANGED <<supervisors, sup, closeTask, callSummaries, aux>>

\* updateSession({status: "ended", endedAt: Date.now(), endedBy: "supervisor"})
endCallStatusLate(s, t) == s
endCallStatus(s, t) ==
  updateSession(s, [status |-> "ended", endedAt |-> t, endedBy |-> "supervisor"])

\* the readings of Date.now() at the update; 0 stands for a field not yet set
EndTimes == {1, 2}

EndCallUpdate(t) ==
  /\ pc.at = "end_call_update"
  /\ t >= getSession(SessionId).endedAt
  /\ sessions' = Put(SessionId, endCallStatus(getSession(SessionId), t))
  /\ sent' = <<>>
  /\ pc' = [pc EXCEPT !.at = "end_call_ack"]
  /\ UNCHANGED <<supervisors, cust, sup, closeTask, callSummaries, last, aux>>

\* the reply to the caller, then the broadcast of {...session, status: "ended"}
EndCallAck ==
  /\ pc.at = "end_call_ack"
  /\ sent' = <<Plain(pc.ws, "session_ended", "ended successfully")>>
               \o broadcastToSupervisors(Msg(NULL, "session_update", "rawSession",
                                             getSession(SessionId).mode, "ended"))
  /\ pc' = Idle
  /\ UNCHANGED <<sessions, supervisors, cust, sup, closeTask, callSummaries, last, aux>>

\* ------------------------------------------------- provider socket events
Binding == getSession(SessionId).geminiSession
SetBinding(g) == Put(SessionId, [getSession(SessionId) EXCEPT !.geminiSession = g])

\* ws.on("open"): isActive = true; setupSession()
GeminiOpen ==
  /\ pc = Idle
  /\ HasSession(SessionId)
  /\ Binding.ws = "connecting"
  /\ LET g == [Binding EXCEPT !.ws = "open", !.isActive = TRUE] IN
       /\ sessions' = SetBinding(g)
       /\ sent' = sendJson(g, "setup", NULL)
  /\ last' = Ev("gemini_open", NULL, NULL)
  /\ UNCHANGED <<supervisors, cust, sup, closeTask, callSummaries, pc, aux>>

\* geminiSession.on("audio"): forward to the customer
onAudio(s, audioData) == ToCustomer(s, Plain(NULL, "audio", audioData))

\* ws.on("message") with a modelTurn part holding inline audio
GeminiAudio ==
  /\ pc = Idle
  /\ HasSession(SessionId)
  /\ Binding.ws \in {"open", "closing"}
  /\ sent' = IF handleMessageDrops(Binding) THEN <<>>
             ELSE emit(Binding, onAudio(getSession(SessionId), "aiFrame"))
  /\ last' = Ev("gemini_audio", NULL, NULL)
  /\ UNCHANGED <<sessions, supervisors, cust, sup, closeTask, callSummaries, pc, aux>>

\* ws.on("error"): emit("error"); geminiSession.on("error") tells the controller.
\* An aborted connection delivers its error and its close together
GeminiError ==
  /\ pc = Idle
  /\ HasSession(SessionId)
  /\ Binding.ws \in {"connecting", "open", "aborted"}
  /\ sessions' = SetBinding([Binding EXCEPT !.ws = IF @ = "aborted" THEN "closed" ELSE "errored"])
  /\ sent' = emit(Binding, ToController(getSession(SessionId), Plain(NULL, "error", SessionId)))
  /\ last' = Ev("gemini_error", NULL, NULL)
  /\ UNCHANGED <<supervisors, cust, sup, closeTask, callSummaries, pc, aux>>

\* ws.on("close"): isActive = false
GeminiClosed ==
  /\ pc = Idle
  /\ HasSession(SessionId)
  /\ Binding.ws \in {"open", "closing", "errored"}
  /\ sessions' = SetBinding([Binding EXCEPT !.ws = "closed", !.isActive = FALSE])
  /\ sent' = <<>>
  /\ last' = Ev("gemini_closed", NULL, NULL)
  /\ UNCHANGED <<supervisors, cust, sup, closeTask, callSummaries, pc, aux>>

\* -------------------------------------------------------------------- Next
Next ==
  \/ \E c \in CustWs : CustomerConnect(c)
  \/ \E c \in CustWs : CustomerAudio(c)
  \/ \E c \in CustWs : CustomerClose(c)
  \/ \E c \in CustWs : CustomerCloseSummary(c)
  \/ \E c \in CustWs, dbOk \in BOOLEAN : CustomerCloseSave(c, dbOk)
  \/ \E u \in SupWs : SupervisorConnect(u)
  \/ \E u \in SupWs : SupervisorClose(u)
  \/ \E u \in SupWs, type \in CommandTypes, sid \in CommandSessionIds :
       SupervisorSessionNotFound(u, type, sid)
  \/ \E u \in SupWs, supervisorId \in SupervisorIds : Takeover(u, supervisorId)
  \/ TakeoverNotify
  \/ \E u \in SupWs, context \in Contexts : Handback(u, context)
  \/ HandbackInject
  \/ HandbackNotify
  \/ \E u \in SupWs : SupervisorAudio(u)
  \/ \E u \in SupWs : SupervisorMessage(u)
  \/ \E u \in SupWs : EndCall(u)
  \/ \E t \in EndTimes : EndCallUpdate(t)
  \/ EndCallAck
  \/ GeminiOpen
  \/ GeminiAudio
  \/ GeminiError
  \/ GeminiClosed

Spec == Init /\ [][Next]_vars

\* The commands that are addressed to the session, without the requests
\* that name no session of the registry: these change only sent and last,
\* which no handler reads
NextControl ==
  \/ \E c \in CustWs : CustomerConnect(c)
  \/ \E c \in CustWs : CustomerAudio(c)
  \/ \E c \in CustWs : CustomerClose(c)
  \/ \E c \in CustWs : CustomerCloseSummary(c)
  \/ \E c \in CustWs, dbOk \in BOOLEAN : CustomerCloseSave(c, dbOk)
  \/ \E u \in SupWs : SupervisorConnect(u)
  \/ \E u \in SupWs : SupervisorClose(u)
  \/ \E u \in SupWs, supervisorId \in SupervisorIds : Takeover(u, supervisorId)
  \/ TakeoverNotify
  \/ \E u \in SupWs, context \in Contexts : Handback(u, context)
  \/ HandbackInject
  \/ HandbackNotify
  \/ \E u \in SupWs : SupervisorAudio(u)
  \/ \E u \in SupWs : SupervisorMessage(u)
  \/ \E u \in SupWs : EndCall(u)
  \/ \E t \in EndTimes : EndCallUpdate(t)
  \/ EndCallAck
  \/ GeminiOpen
  \/ GeminiAudio
  \/ GeminiError
  \/ GeminiClosed

SpecControl == Init /\ [][NextControl]_vars

\* ===================================================================
\* Transcripts and analytics
\* ===================================================================
MaxTasks == 3

AIResponses == {"Hello."}
CustomerTexts == {"hi"}
InjectContexts == {"hi"}
SessionCustWs == {"c1"}
SessionCommanders == {"u1"}

\* a pending timer or promise: its kind, the text it was started with, and
\* whether its continuation awaits the analytics cache before it broadcasts
Task(kind, text, cache) == [kind |-> kind, text |-> text, cache |-> cache]

RECURSIVE Started(_)
Started(seq) == IF seq = <<>> THEN EmptyBag ELSE SetToBag({Head(seq)}) (+) Started(Tail(seq))
Settled(t) == tasks (-) SetToBag({t})
Pending(kind) == {t \in BagToSet(tasks) : t.kind = kind}

\* `data.context[0]` of a context string: its first character
contextAt0(context) ==
  CASE context = "hi" -> "h"
    [] context = "ctx" -> "c"
    [] OTHER -> "undefined"

\* the transcript events among the messages written to socket u
TranscriptEventTypes == {"ai_response", "customer_message"}
TranscriptEvents(out, u) ==
  LET sel == SelectSeq(out, LAMBDA m : m.to = u /\ m.type \in TranscriptEventTypes)
  IN [i \in 1..Len(sel) |->
        [role |-> IF sel[i].type = "ai_response" THEN "ai" ELSE "customer",
         content |-> sel[i].data]]

\* ---------------------------------------------- geminiSession.on("response")
onResponse(s, content) ==
  ToCustomer(s, Plain(NULL, "ai_response", content))
    \o broadcastToSupervisors(Plain(NULL, "ai_response", content))

\* handleMessage emits "response" for a completed sentence of the AI
GeminiResponse(content) ==
  /\ pc = Idle
  /\ HasSession(SessionId)
  /\ Binding.ws \in {"open", "closing"}
  /\ ~handleMessageDrops(Binding)
  /\ Len(getSession(SessionId).transcript) < MaxTranscript
  /\ sent' = emit(Binding, onResponse(getSession(SessionId), content))
  /\ sessions' = Put(SessionId, pushByListeners(getSession(SessionId), "ai", content))
  /\ last' = Ev("response", NULL, content)
  /\ UNCHANGED <<supervisors, cust, sup, closeTask, callSummaries, pc, tasks, pipeline>>

\* ---------------------------------- geminiSession.on("input_transcription")
\* handleMessage with serverContent.inputTranscription: the debounce timer is
\* armed (a chunk that arrives while the timer is pending is not modelled here)
GeminiInputChunk(text) ==
  /\ pc = Idle
  /\ HasSession(SessionId)
  /\ Binding.ws \in {"open", "closing"}
  /\ ~handleMessageDrops(Binding)
  /\ Pending("debounce") = {}
  /\ BagCardinality(tasks) < MaxTasks
  /\ tasks' = tasks (+) Started(<<Task("debounce", text, FALSE)>>)
  /\ sent' = <<>>
  /\ last' = Ev("input_chunk", NULL, text)
  /\ UNCHANGED <<sessions, supervisors, cust, sup, closeTask, callSummaries, pc, pipeline>>

onInputTranscription(s, text) ==
  ToCustomer(s, Plain(NULL, "customer_transcription", text))
    \o broadcastToSupervisors(Plain(NULL, "customer_message", text))

\* analyzeSentiment, analyzeConversation and getSupervisorCoaching are started
inputTranscriptionTasks(text) ==
  <<Task("sentiment", text, FALSE), Task("analysis", NULL, TRUE), Task("coaching", text, TRUE)>>

\* the debounce timer fires and emits "input_transcription" (the texts of
\* CustomerTexts pass the length, language and echo filters)
GeminiInputTranscription(t) ==
  /\ pc = Idle
  /\ t \in Pending("debounce")
  /\ Len(getSession(SessionId).transcript) < MaxTranscript
  /\ BagCardinality(Settled(t)) + Len(inputTranscriptionTasks(t.text)) <= MaxTasks
  /\ sent' = emit(Binding, onInputTranscription(getSession(SessionId), t.text))
  /\ sessions' = Put(SessionId, pushByListeners(getSession(SessionId), "customer", t.text))
  /\ tasks' = Settled(t) (+) Started(emit(Binding, inputTranscriptionTasks(t.text)))
  /\ last' = Ev("input_transcription", NULL, t.text)
  /\ UNCHANGED <<supervisors, cust, sup, closeTask, callSummaries, pc, pipeline>>

\* ------------------------------------------------------- SentimentAnalyzer
historyStartSize == 5
angry == -4

\* sentiment.analyze(text).score: the AFINN score of the text
score(text) == CASE text = "hate" -> -3 [] OTHER -> 0

Min(a, b) == IF a < b THEN a ELSE b

calculateFrustration(sc) == IF sc >= 0 THEN 0 ELSE Min(100, (0 - sc) * 20)

RECURSIVE SumScores(_)
SumScores(msgs) == IF msgs = <<>> THEN 0 ELSE score(Head(msgs).content) + SumScores(Tail(msgs))

\* the level is computed from the last score or from the average score,
\* whichever is lower (in whole percent)
checkEscalation(transcript) ==
  LET users == SelectSeq(transcript, LAMBDA m : m.role \in {"customer", "user"})
      n0 == Len(users)
      userMessages == SubSeq(users, IF n0 > historyStartSize THEN n0 - historyStartSize + 1 ELSE 1, n0)
      n == Len(userMessages)
      totalScore == SumScores(userMessages)
      negativeCount == Len(SelectSeq(userMessages, LAMBDA m : score(m.content) < 0))
      lastMessageScore == score(userMessages[n].content)
      frustrationLevel == IF lastMessageScore * n < totalScore
                          THEN calculateFrustration(lastMessageScore)
                          ELSE IF totalScore >= 0 THEN 0
                          ELSE Min(100, ((0 - totalScore) * 20) \div n)
  IN IF n0 = 0 THEN [shouldEscalate |-> FALSE, frustrationLevel |-> 0]
     ELSE IF lastMessageScore <= angry
       THEN [shouldEscalate |-> TRUE, frustrationLevel |-> frustrationLevel]
     ELSE IF n >= 3 /\ negativeCount >= n - 1
       THEN [shouldEscalate |-> TRUE, frustrationLevel |-> frustrationLevel]
     ELSE [shouldEscalate |-> FALSE, frustrationLevel |-> frustrationLevel]

\* ------------------------------- customer ws.on("message"), data.type "text"
callSendText(g, text) == <<Plain("binding", "sendText", text)>> \o sendText(g, text)

CustomerText(c, content) ==
  /\ pc = Idle
  /\ cust[c] = "open"
  /\ Len(getSession(SessionId).transcript) < MaxTranscript
  /\ LET s1 == pushTranscript(getSession(SessionId), "customer", content)
         escalationCheck == checkEscalation(s1.transcript)
         s2 == updateSession(s1, [sentimentScore |-> score(content),
                                  frustrationLevel |-> escalationCheck.frustrationLevel])
     IN /\ sessions' = Put(SessionId, s2)
        /\ sent' = (IF escalationCheck.shouldEscalate
                    THEN broadcastToSupervisors(Plain(NULL, "escalation_alert", "reason"))
                    ELSE <<>>)
                   \o broadcastToSupervisors(serializeSession(NULL, "session_update", s2))
                   \o (IF s2.mode = "human"
                       THEN ToController(s2, Plain(NULL, "customer_message", content))
                       ELSE callSendText(s2.geminiSession, content))
  /\ last' = Ev("customer_text", c, content)
  /\ UNCHANGED <<supervisors, cust, sup, closeTask, callSummaries, pc, tasks, pipeline>>

\* ------------------------- customer ws.on("message"), data.type "transcript"
transcriptTasks(s, content) ==
  <<Task("sentiment", content, FALSE), Task("analysis", NULL, FALSE)>>
    \o (IF s.mode = "human" THEN <<Task("coaching", content, FALSE)>> ELSE <<>>)

CustomerTranscript(c, content) ==
  /\ pc = Idle
  /\ cust[c] = "open"
  /\ Len(getSession(SessionId).transcript) < MaxTranscript
  /\ BagCardinality(tasks) + Len(transcriptTasks(getSession(SessionId), content)) <= MaxTasks
  /\ sessions' = Put(SessionId, pushTranscript(getSession(SessionId), "customer", content))
  /\ tasks' = tasks (+) Started(transcriptTasks(getSession(SessionId), content))
  /\ sent' = broadcastToSupervisors(Plain(NULL, "customer_message", content))
  /\ last' = Ev("customer_transcript", c, content)
  /\ UNCHANGED <<supervisors, cust, sup, closeTask, callSummaries, pc, pipeline>>

\* ------------------------------------------------------ case "inject_context"
\* the tasks that are started before `gemini3Api.getCoachingSuggestions`,
\* which is not a function of GeminiTextAPI, throws a TypeError
injectContextTasks(context) ==
  <<Task("sentiment", contextAt0(context), FALSE), Task("analysis", NULL, TRUE)>>

injectContextPush(s, context) == pushTranscript(s, "customer", contextAt0(context))

\* the mode check; then injectContext, the transcript entry and the analytics;
\* the TypeError is caught and reported to the caller, so the broadcast of
\* customer_message and the context_injected reply are not reached
InjectContext(u, context) ==
  /\ CanCommand(u)
  /\ LET s == getSession(SessionId) IN
       IF s.mode # "ai"
       THEN /\ sent' = <<Plain(u, "error", "wrongMode")>>
            /\ UNCHANGED <<sessions, tasks, pipeline>>
       ELSE /\ Len(s.transcript) < MaxTranscript
            /\ BagCardinality(tasks) + Len(injectContextTasks(context)) <= MaxTasks
            /\ sent' = injectContext(s.geminiSession, context)
                         \o <<Plain(u, "error", "contextInjectionFailed")>>
            /\ sessions' = Put(SessionId, injectContextPush(s, context))
            /\ tasks' = tasks (+) Started(injectContextTasks(context))
  /\ last' = Ev("inject_context", u, context)
  /\ UNCHANGED <<supervisors, cust, sup, closeTask, callSummaries, pc, pipeline>>

\* ------------------------------------------------- analytics continuations
SentimentResults ==
  {[frustrationLevel |-> 0, sentiment |-> "neutral", shouldEscalate |-> FALSE],
   [frustrationLevel |-> 80, sentiment |-> "frustrated", shouldEscalate |-> TRUE],
   [frustrationLevel |-> 80, sentiment |-> "frustrated", shouldEscalate |-> FALSE]}

\* analyzeSentiment(...).then: update the session, broadcast the level, the
\* alert when shouldEscalate, and the session snapshot
SentimentDone(t, sentimentResult) ==
  /\ pc = Idle
  /\ t \in Pending("sentiment")
  /\ LET s == updateSession(getSession(SessionId),
                            [sentimentScore |-> sentimentResult.frustrationLevel,
                             frustrationLevel |-> sentimentResult.frustrationLevel])
     IN /\ sessions' = Put(SessionId, s)
        /\ sent' = broadcastToSupervisors(Plain(NULL, "frustration_update", sentimentResult.sentiment))
                   \o (IF sentimentResult.shouldEscalate
                       THEN broadcastToSupervisors(Plain(NULL, "escalation_alert", "reason"))
                       ELSE <<>>)
                   \o broadcastToSupervisors(serializeSession(NULL, "session_update", s))
  /\ tasks' = Settled(t)
  /\ last' = Ev("sentiment_done", NULL, sentimentResult.sentiment)
  /\ UNCHANGED <<supervisors, cust, sup, closeTask, callSummaries, pc, pipeline>>

UpdateType(kind) == IF kind \in {"analysis", "cacheAnalytics"} THEN "analytics_update"
                    ELSE "coaching_update"

\* analyzeConversation(...).then / getSupervisorCoaching(...).then: await the
\* cache write where the handler has one, broadcast otherwise
AnalysisDone(t) ==
  /\ pc = Idle
  /\ t \in Pending("analysis") \cup Pending("coaching")
  /\ IF t.cache
     THEN /\ tasks' = Settled(t) (+) Started(<<[t EXCEPT !.kind = IF @ = "analysis"
                                                                  THEN "cacheAnalytics"
                                                                  ELSE "cacheCoaching"]>>)
          /\ sent' = <<>>
     ELSE /\ tasks' = Settled(t)
          /\ sent' = broadcastToSupervisors(Plain(NULL, UpdateType(t.kind), "result"))
  /\ last' = Ev("analysis_done", NULL, t.kind)
  /\ UNCHANGED <<sessions, supervisors, cust, sup, closeTask, callSummaries, pc, pipeline>>

\* cacheAnalytics / cacheCoaching settled (a failure is logged): broadcast
CacheDone(t) ==
  /\ pc = Idle
  /\ t \in Pending("cacheAnalytics") \cup Pending("cacheCoaching")
  /\ tasks' = Settled(t)
  /\ sent' = broadcastToSupervisors(Plain(NULL, UpdateType(t.kind), "result"))
  /\ last' = Ev("cache_done", NULL, t.kind)
  /\ UNCHANGED <<sessions, supervisors, cust, sup, closeTask, callSummaries, pc, pipeline>>

\* the closing handshake of a supervisor socket begins: its readyState is no
\* longer OPEN, and the socket stays in the list until ws.on("close") runs
SupervisorClosing(u) ==
  /\ pc = Idle
  /\ sup[u] = "open"
  /\ sup' = [sup EXCEPT ![u] = "closing"]
  /\ sent' = <<>>
  /\ last' = Ev("supervisor_closing", u, NULL)
  /\ UNCHANGED <<sessions, supervisors, cust, closeTask, callSummaries, pc, aux>>

\* --------------------------------------------------------------------------
\* The session with its transcript and analytics handlers: one customer
\* socket, commands from one supervisor, a second supervisor that observes
NextSession ==
  \/ \E c \in SessionCustWs : CustomerConnect(c)
  \/ \E u \in SupWs : SupervisorConnect(u)
  \/ \E u \in SupWs : SupervisorClose(u)
  \/ \E u \in SessionCommanders, supervisorId \in SupervisorIds : Takeover(u, supervisorId)
  \/ TakeoverNotify
  \/ \E u \in SessionCommanders : Handback(u, "")
  \/ HandbackInject
  \/ HandbackNotify
  \/ GeminiOpen
  \/ \E content \in AIResponses : GeminiResponse(content)
  \/ \E text \in CustomerTexts : GeminiInputChunk(text)
  \/ \E t \in BagToSet(tasks) : GeminiInputTranscription(t)
  \/ \E c \in SessionCustWs, content \in CustomerTexts : CustomerText(c, content)
  \/ \E c \in SessionCustWs, content \in CustomerTexts : CustomerTranscript(c, content)
  \/ \E u \in SessionCommanders, context \in InjectContexts : InjectContext(u, context)
  \/ \E t \in BagToSet(tasks), r \in SentimentResults : SentimentDone(t, r)
  \/ \E t \in BagToSet(tasks) : AnalysisDone(t)
  \/ \E t \in BagToSet(tasks) : CacheDone(t)

SpecSession == Init /\ [][NextSession]_vars

\* --------------------------------------------------------------------------
\* Broadcasts to supervisors whose sockets open, begin to close and close
\* while the session's handlers broadcast
NextBroadcast ==
  \/ \E c \in SessionCustWs : CustomerConnect(c)
  \/ \E u \in SupWs : SupervisorConnect(u)
  \/ \E u \in SupWs : SupervisorClosing(u)
  \/ \E u \in SupWs : SupervisorClose(u)
  \/ GeminiOpen
  \/ \E content \in AIResponses : GeminiResponse(content)
  \/ \E c \in SessionCustWs, content \in CustomerTexts : CustomerTranscript(c, content)
  \/ \E t \in BagToSet(tasks), r \in SentimentResults : SentimentDone(t, r)
  \/ \E t \in BagToSet(tasks) : AnalysisDone(t)

SpecBroadcast == Init /\ [][NextBroadcast]_vars

\* --------------------------------------------------------------------------
\* Requests for the list of sessions
\* `data.sessionId` of a message without that field
NoSessionId == "undefined"
RequestSessionIds == {UnknownSessionId, NoSessionId}

\* a get_sessions message that names an existing session: the switch has no
\* case for it and no default, so nothing is sent
GetSessions(u) ==
  /\ CanCommand(u)
  /\ sent' = <<>>
  /\ last' = Ev("get_sessions", u, SessionId)
  /\ UNCHANGED <<sessions, supervisors, cust, sup, closeTask, callSummaries, pc, aux>>

NextRequests ==
  \/ \E c \in CustWs : CustomerConnect(c)
  \/ \E u \in SupWs : SupervisorConnect(u)
  \/ \E u \in SupWs : SupervisorClose(u)
  \/ \E u \in SupWs, sid \in RequestSessionIds :
       SupervisorSessionNotFound(u, "get_sessions", sid)
  \/ \E u \in SupWs : GetSessions(u)

SpecRequests == Init /\ [][NextRequests]_vars

\* ===================================================================
\* The transcription pipeline of one open GeminiLiveSession
\* ===================================================================
MaxTime == 12800
MaxLen == 5
MaxEmitted == 2

debounce == 400
echoWindow == 10000
minLatinPercent == 30

\* texts are sequences of characters
UpperCase == <<"A", "B", "C", "D", "E", "F", "G", "H", "I", "J", "K", "L", "M",
               "N", "O", "P", "Q", "R", "S", "T", "U", "V", "W", "X", "Y", "Z">>
LowerCase == <<"a", "b", "c", "d", "e", "f", "g", "h", "i", "j", "k", "l", "m",
               "n", "o", "p", "q", "r", "s", "t", "u", "v", "w", "x", "y", "z">>
Range(f) == {f[i] : i \in DOMAIN f}
Latin == Range(UpperCase) \cup Range(LowerCase)
Whitespace == {" "}
\* a character of the ranges U+0900..U+0D7F that isEnglishText tests for
Indic == {"DEVANAGARI_KA"}
\* /[.,!?;:'"()-]/
Punctuation == {".", ",", "!", "?", ";", ":", "'", "\"", "(", ")", "-"}
Terminators == {".", "!", "?"}

toLowerCase(t) ==
  [i \in DOMAIN t |-> IF t[i] \in Range(UpperCase)
                      THEN LowerCase[CHOOSE k \in DOMAIN UpperCase : UpperCase[k] = t[i]]
                      ELSE t[i]]

RECURSIVE trimStart(_)
trimStart(t) == IF t # <<>> /\ Head(t) \in Whitespace THEN trimStart(Tail(t)) ELSE t
RECURSIVE trimEnd(_)
trimEnd(t) ==
  IF t # <<>> /\ t[Len(t)] \in Whitespace THEN trimEnd(SubSeq(t, 1, Len(t) - 1)) ELSE t
trim(t) == trimEnd(trimStart(t))

\* .toLowerCase().replace(/[.,!?;:'"()-]/g, "").trim()
normalize(t) == trim(SelectSeq(toLowerCase(t), LAMBDA c : c \notin Punctuation))

\* String.prototype.includes
includes(a, b) ==
  \E i \in 0..Len(a) : i + Len(b) <= Len(a) /\ SubSeq(a, i + 1, i + Len(b)) = b

\* isEnglishText without the test for Indic characters
isEnglishTextLatinOnly(t) ==
  /\ t # <<>>
  /\ LET latinChars == Len(SelectSeq(t, LAMBDA c : c \in Latin))
         totalChars == Len(SelectSeq(t, LAMBDA c : c \notin Whitespace))
     IN ~(totalChars > 0 /\ latinChars * 100 < minLatinPercent * totalChars)

\* isEnglishText: no Indic character and at least 30% Latin letters among the
\* characters that are not whitespace
isEnglishText(t) ==
  /\ t # <<>>
  /\ \A i \in DOMAIN t : t[i] \notin Indic
  /\ LET latinChars == Len(SelectSeq(t, LAMBDA c : c \in Latin))
         totalChars == Len(SelectSeq(t, LAMBDA c : c \notin Whitespace))
     IN ~(totalChars > 0 /\ latinChars * 100 < minLatinPercent * totalChars)

\* cleanTranscript of a text without markdown markers and meta-phrases:
\* .trim().replace(/\s+/g, " ")
RECURSIVE collapse(_)
collapse(t) ==
  IF Len(t) < 2 THEN t
  ELSE IF t[1] \in Whitespace /\ t[2] \in Whitespace THEN collapse(Tail(t))
  ELSE <<t[1]>> \o collapse(Tail(t))
cleanTranscript(t) == collapse(trim(t))

\* /^(.*?[.!?])\s*/ : the index of the first terminator, 0 when there is none
sentenceEnd(t) ==
  IF \E i \in DOMAIN t : t[i] \in Terminators
  THEN CHOOSE i \in DOMAIN t : t[i] \in Terminators /\ \A j \in 1..(i - 1) : t[j] \notin Terminators
  ELSE 0

Emit(type, text) == Plain("listener", type, text)
\* a "response" event; the field status names the statement that emitted it
EmitResponse(text, via) == Msg("listener", "response", text, NULL, via)
Step(g, out) == [g |-> g, out |-> out]

\* modelTurn parts with text
handleModelTurn(st, m) ==
  IF m.modelText # NoText /\ cleanTranscript(m.modelText) # NoText
  THEN Step(st.g, st.out \o <<EmitResponse(cleanTranscript(m.modelText), "modelTurn")>>)
  ELSE st

\* turnComplete: flush the rest of the output buffer
handleTurnComplete(st, m) ==
  IF ~m.turnComplete THEN st
  ELSE IF trim(st.g.transcriptionBuffer) = NoText
    THEN Step(st.g, st.out \o <<Emit("turn_complete", NoText)>>)
  ELSE LET finalText == cleanTranscript(trim(st.g.transcriptionBuffer)) IN
    Step([st.g EXCEPT !.transcriptionBuffer = NoText],
         st.out \o (IF finalText # NoText THEN <<EmitResponse(finalText, "flush")>> ELSE <<>>)
                \o <<Emit("turn_complete", NoText)>>)

\* recentAIResponses.push(...) and the removal of the entries that are
\* echoWindow old
remember(recent, sentence, t) ==
  SelectSeq(Append(recent, [text |-> normalize(sentence), timestamp |-> t]),
            LAMBDA r : t - r.timestamp < echoWindow)

\* outputTranscription: append the chunk, emit the first complete sentence
handleOutputTranscription(st, m, t) ==
  IF m.outputTranscription = NoText THEN st
  ELSE LET buffer == st.g.transcriptionBuffer \o m.outputTranscription
           e == sentenceEnd(buffer)
           completeSentence == cleanTranscript(trim(SubSeq(buffer, 1, e)))
           rest == trim(SubSeq(buffer, e + 1, Len(buffer)))
       IN IF e = 0 THEN Step([st.g EXCEPT !.transcriptionBuffer = buffer], st.out)
          ELSE IF completeSentence = NoText
            THEN Step([st.g EXCEPT !.transcriptionBuffer = rest], st.out)
          ELSE Step([st.g EXCEPT !.transcriptionBuffer = rest,
                                 !.recentAIResponses = remember(@, completeSentence, t)],
                    st.out \o <<EmitResponse(completeSentence, "sentence")>>)

\* inputTranscription: append to the pending text and restart the timer
handleInputTranscription(st, m, t) ==
  IF m.inputTranscription # NoText /\ isEnglishText(m.inputTranscription)
  THEN Step([st.g EXCEPT
               !.pendingInputTranscription =
                  IF @ # NoText THEN @ \o <<" ">> \o m.inputTranscription
                  ELSE m.inputTranscription,
               !.transcriptionTimeout = [armed |-> TRUE, due |-> t + debounce]],
            st.out)
  ELSE st

\* the second `if (content.turnComplete)` block
handleTurnCompleteAgain(st, m) ==
  IF m.turnComplete THEN Step(st.g, st.out \o <<Emit("turn_complete", NoText)>>) ELSE st

handleMessage(g, m, t) ==
  IF handleMessageDrops(g) THEN Step(g, <<>>)
  ELSE handleTurnCompleteAgain(
         handleInputTranscription(
           handleOutputTranscription(
             handleTurnComplete(handleModelTurn(Step(g, <<>>), m), m), m, t), m, t), m)

\* the echo test of the timer callback
isEcho(recent, normalizedInput) ==
  \E i \in DOMAIN recent :
    includes(normalizedInput, recent[i].text) \/ includes(recent[i].text, normalizedInput)

\* the callback of the debounce timer
onTranscriptionTimeout(g) ==
  LET completeText == trim(g.pendingInputTranscription)
      g1 == [g EXCEPT !.transcriptionTimeout = NoTimer]
  IN IF g.pendingInputTranscription = NoText THEN Step(g1, <<>>)
     ELSE Step([g1 EXCEPT !.pendingInputTranscription = NoText],
               IF isEnglishText(completeText)
                  /\ ~isEcho(g.recentAIResponses, normalize(completeText))
               THEN <<Emit("input_transcription", completeText)>>
               ELSE <<>>)

\* ----------------------------------------------------- provider messages
ProviderMessage(modelText, turnComplete, outputTranscription, inputTranscription) ==
  [modelText |-> modelText, turnComplete |-> turnComplete,
   outputTranscription |-> outputTranscription, inputTranscription |-> inputTranscription]

ProviderMessages ==
  {ProviderMessage(NoText, FALSE, <<"O", "k", ".">>, NoText),
   ProviderMessage(NoText, FALSE, <<"O", "k">>, NoText),
   ProviderMessage(NoText, TRUE, NoText, NoText),
   ProviderMessage(<<"O", "k", ".">>, FALSE, NoText, NoText),
   ProviderMessage(NoText, FALSE, NoText, <<"o", "k">>),
   ProviderMessage(NoText, FALSE, NoText, <<"n", "o">>),
   ProviderMessage(NoText, FALSE, NoText, <<" ">>),
   ProviderMessage(NoText, FALSE, NoText, <<"o", "DEVANAGARI_KA">>),
   ProviderMessage(NoText, FALSE, NoText, <<"a", "1", "2", "3">>)}

Delays == {6000}
\* the moments at which the provider reports customer speech
SpeechTimes == {0, 6000, 12000}

Responses(out) == SelectSeq(out, LAMBDA e : e.type = "response")
HasOutput(m) == m.modelText # NoText \/ m.outputTranscription # NoText \/ m.turnComplete

\* ws.on("message") of the provider socket
ProviderMessageArrives(m) ==
  /\ HasOutput(m) => /\ Cardinality(aiLog) < MaxEmitted
                     /\ Len(live.recentAIResponses) < MaxEmitted
  /\ Len(live.transcriptionBuffer) + Len(m.outputTranscription) <= MaxLen
  /\ Len(live.pendingInputTranscription) + Len(m.inputTranscription) + 1 <= MaxLen
  /\ m.inputTranscription # NoText => now \in SpeechTimes
  /\ LET st == handleMessage(live, m, now) IN
       /\ live' = st.g
       /\ sent' = st.out
       /\ aiLog' = aiLog \cup {[text |-> Responses(st.out)[i].data,
                                  via |-> Responses(st.out)[i].status,
                                  timestamp |-> now] : i \in DOMAIN Responses(st.out)}
  /\ last' = Ev("provider_message", NULL, m.inputTranscription)
  /\ UNCHANGED <<sessions, supervisors, cust, sup, closeTask, callSummaries, pc, tasks, now>>

\* the debounce timer is due
TranscriptionTimeout ==
  /\ live.transcriptionTimeout.armed
  /\ now = live.transcriptionTimeout.due
  /\ LET st == onTranscriptionTimeout(live) IN
       /\ live' = st.g
       /\ sent' = st.out
  /\ last' = Ev("transcription_timeout", NULL, NULL)
  /\ UNCHANGED <<sessions, supervisors, cust, sup, closeTask, callSummaries, pc, tasks, now, aiLog>>

\* time passes, up to the moment at which the timer is due
Advance(d) ==
  /\ now + d <= MaxTime
  /\ live.transcriptionTimeout.armed => now + d <= live.transcriptionTimeout.due
  /\ now' = now + d
  /\ sent' = <<>>
  /\ last' = Ev("advance", NULL, NULL)
  /\ UNCHANGED <<sessions, supervisors, cust, sup, closeTask, callSummaries, pc, tasks, live, aiLog>>

AdvanceToTimeout ==
  /\ live.transcriptionTimeout.armed
  /\ now < live.transcriptionTimeout.due
  /\ live.transcriptionTimeout.due <= MaxTime
  /\ now' = live.transcriptionTimeout.due
  /\ sent' = <<>>
  /\ last' = Ev("advance", NULL, NULL)
  /\ UNCHANGED <<sessions, supervisors, cust, sup, closeTask, callSummaries, pc, tasks, live, aiLog>>

\* pause() and resume() of the binding
PipelinePause ==
  /\ ~live.isPaused
  /\ live' = pause(live)
  /\ sent' = <<>>
  /\ last' = Ev("pause", NULL, NULL)
  /\ UNCHANGED <<sessions, supervisors, cust, sup, closeTask, callSummaries, pc, tasks, now, aiLog>>

PipelineResume ==
  /\ live.isPaused
  /\ live' = resume(live)
  /\ sent' = <<>>
  /\ last' = Ev("resume", NULL, NULL)
  /\ UNCHANGED <<sessions, supervisors, cust, sup, closeTask, callSummaries, pc, tasks, now, aiLog>>

NextBinding ==
  \/ \E m \in ProviderMessages : ProviderMessageArrives(m)
  \/ TranscriptionTimeout
  \/ \E d \in Delays : Advance(d)
  \/ AdvanceToTimeout
  \/ PipelinePause
  \/ PipelineResume

SpecBinding == Init /\ [][NextBinding]_vars

\* --------------------------------------------------------------------------
\* The output transcription of the AI: chunks without and with a sentence
\* end, a chunk with two sentences, turnComplete alone and turnComplete in
\* one message with a chunk
OutputMessages ==
  {ProviderMessage(NoText, FALSE, <<"O", "k", ".">>, NoText),
   ProviderMessage(NoText, FALSE, <<"O", "k">>, NoText),
   ProviderMessage(NoText, FALSE, <<"A", ".", "B", ".">>, NoText),
   ProviderMessage(NoText, TRUE, NoText, NoText),
   ProviderMessage(NoText, TRUE, <<"O", "k">>, NoText)}

NextOutput ==
  \/ \E m \in OutputMessages : ProviderMessageArrives(m)
  \/ \E d \in Delays : Advance(d)
  \/ PipelinePause
  \/ PipelineResume

SpecOutput == Init /\ [][NextOutput]_vars

\* --------------------------------------------------------------------------
\* The connection of the binding to the provider while time passes: the
\* session and its binding are created by the first customer connection,
\* and the provider socket opens, fails or does neither
NextConnect ==
  \/ \E c \in CustWs : CustomerConnect(c)
  \/ \E c \in CustWs : CustomerAudio(c)
  \/ GeminiOpen
  \/ GeminiAudio
  \/ GeminiError
  \/ GeminiClosed
  \/ \E d \in Delays : Advance(d)

SpecConnect == Init /\ [][NextConnect]_vars

\* The binding of a session around end_call: the provider socket is closing
\* after close() and closed when the provider's close arrives
NextClosed ==
  \/ \E c \in SessionCustWs : CustomerConnect(c)
  \/ \E u \in SessionCommanders : SupervisorConnect(u)
  \/ \E u \in SessionCommanders : EndCall(u)
  \/ \E t \in EndTimes : EndCallUpdate(t)
  \/ EndCallAck
  \/ GeminiOpen
  \/ GeminiAudio
  \/ GeminiClosed
  \/ \E content \in AIResponses : GeminiResponse(content)
  \/ \E text \in CustomerTexts : GeminiInputChunk(text)
  \/ \E t \in BagToSet(tasks) : GeminiInputTranscription(t)

SpecClosed == Init /\ [][NextClosed]_vars

\* Sentiment tasks of one session that are in flight together. The provider
\* answers by the utterance it is asked about: frustrated for "hate", neutral
\* otherwise
SentimentTexts == {"hi", "hate"}

analyzeSentiment(text) ==
  IF text = "hate"
  THEN [frustrationLevel |-> 80, sentiment |-> "frustrated", shouldEscalate |-> TRUE]
  ELSE [frustrationLevel |-> 0, sentiment |-> "neutral", shouldEscalate |-> FALSE]

\* the promise of analyzeSentiment(t.text, ...) resolves
SentimentSettles(t) == SentimentDone(t, analyzeSentiment(t.text))

NextSentiment ==
  \/ \E c \in SessionCustWs : CustomerConnect(c)
  \/ \E u \in SessionCommanders : SupervisorConnect(u)
  \/ \E c \in SessionCustWs, content \in SentimentTexts : CustomerTranscript(c, content)
  \/ \E t \in BagToSet(tasks) : SentimentSettles(t)
  \/ \E t \in BagToSet(tasks) : AnalysisDone(t)

SpecSentiment == Init /\ [][NextSentiment]_vars

\* The customer attaches to the session several times while the binding
\* emits events
NextAttach ==
  \/ \E c \in CustWs : CustomerConnect(c)
  \/ \E u \in SessionCommanders : SupervisorConnect(u)
  \/ GeminiOpen
  \/ GeminiClosed
  \/ \E content \in AIResponses : GeminiResponse(content)
  \/ \E text \in CustomerTexts : GeminiInputChunk(text)
  \/ \E t \in BagToSet(tasks) : GeminiInputTranscription(t)
  \/ \E t \in BagToSet(tasks) : SentimentSettles(t)

SpecAttach == Init /\ [][NextAttach]_vars

\* --------------------------------------------------------------------------
\* The fallback of analyzeConversation: the keyword classifier
MaxIntentTranscript == 2

\* the keyword groups in their order of priority
intentPatterns ==
  <<[intent |-> "complaint",
     keywords |-> <<<<"c", "o", "m", "p", "l", "a", "i", "n">>,
                    <<"t", "e", "r", "r", "i", "b", "l", "e">>,
                    <<"w", "o", "r", "s", "t">>,
                    <<"a", "w", "f", "u", "l">>,
                    <<"u", "n", "a", "c", "c", "e", "p", "t", "a", "b", "l", "e">>,
                    <<"d", "i", "s", "a", "p", "p", "o", "i", "n", "t", "e", "d">>,
                    <<"a", "n", "g", "r", "y">>,
                    <<"f", "u", "r", "i", "o", "u", "s">>,
                    <<"h", "a", "t", "e">>,
                    <<"n", "e", "v", "e", "r", " ", "w", "o", "r", "k">>>>],
    [intent |-> "cancellation",
     keywords |-> <<<<"c", "a", "n", "c", "e", "l">>,
                    <<"u", "n", "s", "u", "b", "s", "c", "r", "i", "b", "e">>,
                    <<"t", "e", "r", "m", "i", "n", "a", "t", "e">>,
                    <<"e", "n", "d", " ", "m", "y">>,
                    <<"s", "t", "o", "p", " ", "m", "y">>,
                    <<"c", "l", "o", "s", "e", " ", "m", "y", " ", "a", "c", "c", "o", "u", "n", "t">>>>],
    [intent |-> "purchase",
     keywords |-> <<<<"b", "u", "y">>,
                    <<"p", "u", "r", "c", "h", "a", "s", "e">>,
                    <<"o", "r", "d", "e", "r">>,
                    <<"p", "r", "i", "c", "i", "n", "g">>,
                    <<"c", "o", "s", "t">>,
                    <<"h", "o", "w", " ", "m", "u", "c", "h">>,
                    <<"s", "u", "b", "s", "c", "r", "i", "b", "e">>,
                    <<"s", "i", "g", "n", " ", "u", "p">>>>],
    [intent |-> "support",
     keywords |-> <<<<"h", "e", "l", "p">>,
                    <<"i", "s", "s", "u", "e">>,
                    <<"p", "r", "o", "b", "l", "e", "m">>,
                    <<"n", "o", "t", " ", "w", "o", "r", "k", "i", "n", "g">>,
                    <<"b", "r", "o", "k", "e", "n">>,
                    <<"f", "i", "x">>,
                    <<"t", "r", "o", "u", "b", "l", "e">>,
                    <<"e", "r", "r", "o", "r">>,
                    <<"s", "t", "u", "c", "k">>>>],
    [intent |-> "inquiry",
     keywords |-> <<<<"w", "h", "a", "t", " ", "i", "s">>,
                    <<"h", "o", "w", " ", "d", "o">>,
                    <<"w", "h", "e", "r", "e", " ", "c", "a", "n">>,
                    <<"w", "h", "e", "n", " ", "w", "i", "l", "l">>,
                    <<"t", "e", "l", "l", " ", "m", "e", " ", "a", "b", "o", "u", "t">>,
                    <<"i", "n", "f", "o", "r", "m", "a", "t", "i", "o", "n">>,
                    <<"q", "u", "e", "s", "t", "i", "o", "n">>,
                    <<"w", "o", "n", "d", "e", "r", "i", "n", "g">>>>],
    [intent |-> "feedback",
     keywords |-> <<<<"s", "u", "g", "g", "e", "s", "t", "i", "o", "n">>,
                    <<"f", "e", "e", "d", "b", "a", "c", "k">>,
                    <<"i", "m", "p", "r", "o", "v", "e">>,
                    <<"r", "e", "c", "o", "m", "m", "e", "n", "d">>,
                    <<"b", "e", "t", "t", "e", "r", " ", "i", "f">>,
                    <<"w", "o", "u", "l", "d", " ", "b", "e", " ", "n", "i", "c", "e">>>>]>>

minInquiryLength == 20

\* detectIntentFromKeywords: the first group one of whose keywords the
\* lower-cased text includes; inquiry for a longer text without a keyword
detectIntentFromKeywords(text) ==
  LET lowerText == toLowerCase(text)
      matching == {g \in DOMAIN intentPatterns :
                     \E k \in DOMAIN intentPatterns[g].keywords :
                       includes(lowerText, intentPatterns[g].keywords[k])}
  IN IF matching # {}
     THEN intentPatterns[CHOOSE g \in matching : \A h \in matching : g <= h].intent
     ELSE IF Len(text) > minInquiryLength THEN "inquiry"
     ELSE "unknown"

\* Array.prototype.join
RECURSIVE join(_, _)
join(texts, separator) ==
  IF texts = <<>> THEN <<>>
  ELSE IF Len(texts) = 1 THEN texts[1]
  ELSE texts[1] \o separator \o join(Tail(texts), separator)

\* the characters of a role name
roleText(role) ==
  CASE role = "customer" -> <<"c", "u", "s", "t", "o", "m", "e", "r">>
    [] role = "ai" -> <<"a", "i">>
    [] OTHER -> <<"s", "u", "p", "e", "r", "v", "i", "s", "o", "r">>

\* transcript.map((m) => `${m.role}: ${m.content}`).join("\n")
conversationText(transcript) ==
  join([i \in DOMAIN transcript |->
          roleText(transcript[i].role) \o <<":", " ">> \o transcript[i].content],
       <<"\n">>)

\* transcript.map((m) => m.content).join(" ")
contentText(transcript) ==
  join([i \in DOMAIN transcript |-> transcript[i].content], <<" ">>)

\* the intent of analyzeConversation for the three outcomes of the provider
\* call: a parsed answer, an unparseable answer, a rejected call
AnalysisOutcomes == {"parsed", "unparseable", "rejected"}
analyzeConversation(transcript, outcome) ==
  IF transcript = <<>> THEN "unknown"
  ELSE IF outcome = "parsed" THEN "parsedIntent"
  ELSE IF outcome = "unparseable" THEN detectIntentFromKeywords(conversationText(transcript))
  ELSE detectIntentFromKeywords(contentText(transcript))

\* the utterances of the transcripts that are analysed
IntentContents ==
  {<<"I", " ", "h", "a", "t", "e", " ", "t", "h", "i", "s", " ", "o", "r", "d", "e", "r">>,
   <<"h", "e", "l", "l", "o", " ", "t", "h", "e", "r", "e", " ", "f", "r", "i", "e", "n", "d">>,
   <<"h", "i">>,
   <<"E", "N", "D">>,
   <<"m", "y", " ", "p", "l", "a", "n">>,
   <<"A", "n", "y", " ", "f", "e", "e", "d", "b", "a", "c", "k">>}
IntentEntries ==
  {[role |-> "customer", content |-> c] : c \in IntentContents}
    \cup {[role |-> "ai", content |-> <<"h", "i">>]}
IntentTranscripts ==
  UNION {[1..n -> IntentEntries] : n \in 0..MaxIntentTranscript}

\* a session whose customer has left, with one of the transcripts
InitIntent ==
  /\ now = 0
  /\ \E transcript \in IntentTranscripts :
       sessions = (SessionId :> [createSession(SessionId) EXCEPT
                                   !.status = "active",
                                   !.geminiSession = registerHandlers(NewGeminiLiveSession),
                                   !.transcript = transcript])
  /\ supervisors = <<>>
  /\ cust = [c \in CustWs |-> "new"]
  /\ sup = [u \in SupWs |-> "new"]
  /\ closeTask = [c \in CustWs |-> "none"]
  /\ callSummaries = <<>>
  /\ pc = Idle
  /\ sent = <<>>
  /\ last = Ev("init", NULL, NULL)
  /\ tasks = EmptyBag
  /\ live = NewPipeline
  /\ aiLog = {}

\* analyzeConversation(session.transcript) settles with an analysis
AnalyzeConversation(outcome) ==
  /\ pc = Idle
  /\ HasSession(SessionId)
  /\ sent' = <<Plain("caller", "analysis",
                      analyzeConversation(getSession(SessionId).transcript, outcome))>>
  /\ last' = Ev("analyze_conversation", NULL, outcome)
  /\ UNCHANGED <<sessions, supervisors, cust, sup, closeTask, callSummaries, pc, aux>>

NextIntent == \E outcome \in AnalysisOutcomes : AnalyzeConversation(outcome)

SpecIntent == InitIntent /\ [][NextIntent]_vars

\* ===================================================================
\* Properties
\* ===================================================================
S == getSession(SessionId)

AIAudioToCustomer(out) ==
  \E i \in DOMAIN out : out[i].type = "audio" /\ out[i].data = "aiFrame" /\ out[i].to \in CustWs

\* C1: no audio chunk produced by the AI binding is written to a customer
\* socket by a step that starts while the session's mode is human.
C1_NoAIAudioWhileHuman ==
  [][AIAudioToCustomer(sent') => S.mode = "ai" /\ S'.mode = "ai"]_vars

\* C1 witness: the provider delivered an audio message while the session was
\* in human mode with an open customer socket, and nothing was forwarded.
C1_Witness ==
  /\ HasSession(SessionId)
  /\ last.ev = "gemini_audio"
  /\ S.mode = "human"
  /\ CustomerOpen(S)
  /\ sent = <<>>

\* C2: every open customer connection that feeds audio into the session is
\* the session's current customer transport (so at most one feeds it, and
\* closing another connection cannot leave an open one detached).
C2_SingleCustomerTransport ==
  HasSession(SessionId) => \A c \in CustWs : cust[c] = "open" => S.customerWs = c

\* C3: once status is ended, no step changes status, mode, controller,
\* transcript or the frustration fields of the session.
C3_EndedIsTerminal ==
  [][(HasSession(SessionId) /\ S.status = "ended") =>
       /\ S'.status = "ended"
       /\ S'.mode = S.mode
       /\ S'.supervisorWs = S.supervisorWs
       /\ S'.supervisorId = S.supervisorId
       /\ S'.takenOverBy = S.takenOverBy
       /\ S'.transcript = S.transcript
       /\ S'.frustrationLevel = S.frustrationLevel
       /\ S'.sentimentScore = S.sentimentScore]_vars

\* C4: mode = human implies that a controller (supervisor socket and
\* supervisor id) is recorded and that the binding's pause gate is set.
C4_HumanHasControllerAndPause ==
  (HasSession(SessionId) /\ S.mode = "human") =>
    /\ S.supervisorWs \in SupWs
    /\ S.supervisorId \in SupervisorIds
    /\ S.geminiSession.isPaused

\* C4 witness: a takeover has completed; a second supervisor took over after
\* the first one, and the session is in human mode.
C4_Witness ==
  /\ HasSession(SessionId)
  /\ pc = Idle
  /\ last = Ev("takeover", "u2", "sup42")
  /\ S.mode = "human"
  /\ S.supervisorWs = "u2"
  /\ sup["u1"] = "open"

NoController(s) == s.supervisorWs = NULL /\ s.supervisorId = NULL

ModeChangeHuman(out, c) ==
  \E i \in DOMAIN out : out[i].to = c /\ out[i].type = "mode_change" /\ out[i].mode = "human"
UpdateHuman(out, u) ==
  \E i \in DOMAIN out : out[i].to = u /\ out[i].type = "session_update" /\ out[i].mode = "human"

\* C6: the step of a takeover that writes mode_change{human} and the
\* session_update starts with mode = human and the pause gate set, and leaves
\* them so; it writes mode_change{human} to the session's open customer
\* socket and a session_update showing mode human to every open supervisor.
C6_TakeoverBeforeAck ==
  [][((\E c \in CustWs : ModeChangeHuman(sent', c)) \/
      (pc.at = "takeover_notify" /\ pc'.at = "idle")) =>
       /\ S.mode = "human" /\ S.geminiSession.isPaused
       /\ S'.mode = "human" /\ S'.geminiSession.isPaused
       /\ CustomerOpen(S) => ModeChangeHuman(sent', S.customerWs)
       /\ \A u \in SupWs : sup[u] = "open" => UpdateHuman(sent', u)]_vars

\* C6 witness: a takeover completed with an open customer and two open
\* supervisors; all three were notified.
C6_Witness ==
  /\ HasSession(SessionId)
  /\ pc = Idle
  /\ last.ev = "takeover"
  /\ ModeChangeHuman(sent, S.customerWs)
  /\ UpdateHuman(sent, "u1")
  /\ UpdateHuman(sent, "u2")

ToControllerAudio(out, s) ==
  out = <<Plain(s.supervisorWs, "customer_audio", "custFrame")>>
CallsSendAudio(out) ==
  \E i \in DOMAIN out : out[i].to = "binding" /\ out[i].type = "sendAudio"
ForwardsCustomerAudio(out) ==
  \E i \in DOMAIN out : out[i].type = "customer_audio"

C8_SupervisorAudioOnlyFromController ==
  (last.ev = "supervisor_audio" /\ sent # <<>>) =>
    S.mode = "human" /\ S.supervisorWs = last.ws

\* C9: a handback sent in ai mode or by a supervisor that is not the
\* controller is answered with an error and changes nothing.
C9_HandbackRejected ==
  [][(pc.at = "idle" /\ last'.ev = "handback"
        /\ ~(S.mode = "human" /\ S.supervisorWs = last'.ws)) =>
       /\ sent' = <<Plain(last'.ws, "error", "wrongMode")>>
       /\ sessions' = sessions]_vars

\* C10: a takeover on a session whose status is not active leaves mode,
\* controller and pause gate unchanged.
C10_TakeoverNeedsActive ==
  [][(pc.at = "idle" /\ last'.ev = "takeover" /\ S.status # "active") =>
       /\ S'.mode = S.mode
       /\ S'.supervisorWs = S.supervisorWs
       /\ S'.supervisorId = S.supervisorId
       /\ S'.geminiSession.isPaused = S.geminiSession.isPaused]_vars

SessionEventTypes ==
  {"ai_response", "customer_message", "frustration_update", "analytics_update",
   "coaching_update", "call_ended", "session_update", "escalation_alert"}

SessionEventTo(out, u) ==
  \E i \in DOMAIN out : out[i].to = u /\ out[i].type \in SessionEventTypes

\* C14: once end_call has completed (status ended recorded by the supervisor's
\* command and its session_update broadcast), no later step writes a session
\* event to any supervisor.
C14_EndedUpdateIsLast ==
  [][(HasSession(SessionId) /\ S.endedBy = "supervisor" /\ pc.at = "idle") =>
       \A u \in SupWs : ~SessionEventTo(sent', u)]_vars

AckSent(out) ==
  \E i \in DOMAIN out : out[i].to \in SupWs /\ out[i].type = "session_ended"
CustomerToldEnded(out, c) ==
  \E i \in DOMAIN out : out[i].to = c /\ out[i].type = "session_ended"

\* C15: the step that writes the end_call acknowledgement starts with status
\* ended, the binding closed and the customer socket no longer open; the
\* handler reaches it only through the step that notified the open customer
\* and closed the binding, followed by the status update.
C15_AckAfterEnded ==
  [][/\ AckSent(sent') =>
          /\ pc.at = "end_call_ack"
          /\ S.status = "ended"
          /\ S.geminiSession.closeCalled
          /\ ~CustomerOpen(S)
     /\ (pc'.at = "end_call_ack" /\ pc.at # "end_call_ack") => pc.at = "end_call_update"
     /\ (pc'.at = "end_call_update" /\ pc.at # "end_call_update") =>
          /\ pc.at = "idle"
          /\ CustomerOpen(S) => CustomerToldEnded(sent', S.customerWs)
          /\ S'.geminiSession.closeCalled]_vars

\* C15 witness: end_call completed on a session whose customer was connected;
\* the caller has its acknowledgement, the customer socket is closing.
C15_Witness ==
  /\ HasSession(SessionId)
  /\ pc = Idle
  /\ last.ev = "end_call"
  /\ AckSent(sent)
  /\ S.status = "ended"
  /\ S.customerWs # NULL
  /\ cust[S.customerWs] = "closing"

EndedUpdateTo(out, u) ==
  \E i \in DOMAIN out :
    out[i].to = u /\ out[i].type = "session_update" /\ out[i].status = "ended"

\* C16: when the close handler of a customer socket has run to its end, every
\* open supervisor was sent a session_update with status ended and the session
\* is no longer in the session manager.
C16_CloseEndsSession ==
  \A c \in CustWs :
    (closeTask[c] = "done" /\ last.ws = c /\ last.ev \in {"customer_close", "close_save"}) =>
      /\ \A u \in SupWs : sup[u] = "open" => EndedUpdateTo(sent, u)
      /\ ~HasSession(SessionId)

\* the keys of the JSON object that is written for a supervisor event
MessageKeys(m) ==
  IF m.data = "serializationError" THEN {"type", "sessionId", "error"}
  ELSE IF m.type \in {"session_update", "ai_response", "analytics_update", "coaching_update"}
    THEN {"type", "sessionId", "data"}
  ELSE IF m.type = "customer_message" THEN {"type", "sessionId", "content"}
  ELSE IF m.type = "frustration_update"
    THEN {"type", "sessionId", "frustrationLevel", "sentiment", "reason"}
  ELSE IF m.type = "escalation_alert" THEN {"type", "sessionId", "reason", "frustrationLevel"}
  ELSE IF m.type = "call_ended" THEN {"type", "sessionId", "summary"}
  ELSE {"type"}

\* C18: every session event written to a supervisor carries the session id
\* and a sequence number.
C18_EventsCarrySequence ==
  \A i \in DOMAIN sent :
    (sent[i].to \in SupWs /\ sent[i].type \in SessionEventTypes) =>
      /\ "sessionId" \in MessageKeys(sent[i])
      /\ \E k \in {"seq", "sequence", "sequenceNumber"} : k \in MessageKeys(sent[i])

ErrorReply(out, u) == \E i \in DOMAIN out : out[i].to = u /\ out[i].type = "error"
ToProvider(out) == \E i \in DOMAIN out : out[i].to = "provider"
InjectReplies(out, u) ==
  SelectSeq(out, LAMBDA m : m.to = u /\ m.type \in {"context_injected", "error"})

\* C11: an inject_context handled while the mode is not ai or the binding is
\* not ready is answered with an error, appends no transcript entry, sends
\* nothing to the provider and starts no analytics task.
C11_InjectNeedsAiAndReady ==
  [][(pc.at = "idle" /\ last'.ev = "inject_context"
        /\ ~(S.mode = "ai" /\ BindingState(S.geminiSession) = "ready")) =>
       /\ ErrorReply(sent', last'.ws)
       /\ S'.transcript = S.transcript
       /\ ~ToProvider(sent')
       /\ tasks' = tasks]_vars

\* C12: every inject_context gets exactly one reply; context_injected implies
\* that the entry was appended and the text sent to the provider; an error
\* implies that the session and the analytics tasks are unchanged and that
\* nothing was sent to the provider.
C12_InjectOneReply ==
  [][(pc.at = "idle" /\ last'.ev = "inject_context") =>
       LET replies == InjectReplies(sent', last'.ws) IN
         /\ Len(replies) = 1
         /\ replies[1].type = "context_injected" =>
              /\ Len(S'.transcript) = Len(S.transcript) + 1
              /\ ToProvider(sent')
         /\ replies[1].type = "error" =>
              /\ sessions' = sessions
              /\ tasks' = tasks
              /\ ~ToProvider(sent')]_vars

\* C13: an inject_context with context x that passes the mode check appends
\* the entry and starts the analytics tasks that the input_transcription
\* handler appends and starts for the text x.
C13_InjectLikeInputTranscription ==
  [][(pc.at = "idle" /\ last'.ev = "inject_context" /\ S.mode = "ai") =>
       /\ S'.transcript = pushTranscript(S, "customer", last'.arg).transcript
       /\ tasks' = tasks (+) Started(inputTranscriptionTasks(last'.arg))]_vars

RECURSIVE IsSubsequence(_, _)
IsSubsequence(a, b) ==
  IF a = <<>> THEN TRUE
  ELSE IF b = <<>> THEN FALSE
  ELSE IF Head(a) = Head(b) THEN IsSubsequence(Tail(a), Tail(b))
  ELSE IsSubsequence(a, Tail(b))

TranscriptOf(has, ss) == IF has THEN ss[SessionId].transcript ELSE <<>>

\* C17: the transcript only grows at its end, and the ai_response and
\* customer_message events that a step writes to a supervisor are, in order,
\* entries that this very step appended; hence every supervisor receives them
\* in the order of the transcript.
C17_EventsInAppendOrder ==
  [][LET old == TranscriptOf(HasSession(SessionId), sessions)
         new == TranscriptOf(SessionId \in DOMAIN sessions', sessions')
     IN /\ Len(old) <= Len(new)
        /\ SubSeq(new, 1, Len(old)) = old
        /\ \A u \in SupWs :
             IsSubsequence(TranscriptEvents(sent', u),
                           SubSeq(new, Len(old) + 1, Len(new)))]_vars

CustomerMessageTo(out, u, content) ==
  \E i \in DOMAIN out :
    out[i].to = u /\ out[i].type = "customer_message" /\ out[i].data = content

\* C17 witness: an AI response and then a customer input transcription were
\* handled; the second event was written to both supervisors and the
\* transcript holds the two entries in that order.
C17_Witness ==
  /\ HasSession(SessionId)
  /\ last.ev = "input_transcription"
  /\ S.transcript = <<[role |-> "ai", content |-> "Hello."],
                      [role |-> "customer", content |-> "hi"]>>
  /\ CustomerMessageTo(sent, "u1", "hi")
  /\ CustomerMessageTo(sent, "u2", "hi")


\* the debounce timer fires in this step, with a pending customer input
TimerFires == last'.ev = "transcription_timeout" /\ live.transcriptionTimeout.armed
FinalizedInput == trim(live.pendingInputTranscription)
InputEmitted(out) == \E i \in DOMAIN out : out[i].type = "input_transcription"
Matches(c, s) ==
  includes(normalize(c), normalize(s)) \/ includes(normalize(s), normalize(c))

\* C19: a customer input that is finalized within the echo window of a
\* sentence emitted by the AI (by sentence completion or by the turnComplete
\* flush), and that contains it or is contained in it after normalization,
\* is not emitted as input_transcription.
C19_EchoSuppressed ==
  [][(TimerFires /\ FinalizedInput # NoText
        /\ \E e \in aiLog : /\ e.via \in {"sentence", "flush"}
                            /\ now - e.timestamp < echoWindow
                            /\ Matches(FinalizedInput, e.text)) =>
       ~InputEmitted(sent')]_vars

\* C20: a customer input that passes the script filter and matches only AI
\* sentences emitted more than the echo window ago is emitted as
\* input_transcription.
C20_OldSentenceDoesNotSuppress ==
  [][(TimerFires /\ isEnglishText(FinalizedInput)
        /\ (\E e \in aiLog : Matches(FinalizedInput, e.text))
        /\ (\A o \in aiLog : Matches(FinalizedInput, o.text) => now - o.timestamp > echoWindow)) =>
       sent' = <<Emit("input_transcription", FinalizedInput)>>]_vars

TurnCompleteHandled(out) == \E i \in DOMAIN out : out[i].type = "turn_complete"
InputEmittedAs(out, text) ==
  \E i \in DOMAIN out : out[i] = Emit("input_transcription", text)

\* C21: a provider message with turnComplete that is handled while a
\* customer input is pending and its debounce timer has not yet run out
\* finalizes the pending input in that very step: the pending text is
\* cleared, and it is emitted as input_transcription when it passes the
\* script filter and is no echo.
C21_TurnCompleteFlushesInput ==
  [][(TurnCompleteHandled(sent')
        /\ live.pendingInputTranscription # NoText
        /\ live.transcriptionTimeout.armed
        /\ now < live.transcriptionTimeout.due) =>
       /\ live'.pendingInputTranscription = NoText
       /\ (isEnglishText(FinalizedInput)
             /\ ~isEcho(live.recentAIResponses, normalize(FinalizedInput)))
            => InputEmittedAs(sent', FinalizedInput)]_vars

\* the script filter as a property of a text: not empty after trimming, no
\* Indic character, and at least 30% Latin letters among the characters
\* that are not whitespace
ScriptFilter(t) ==
  /\ trim(t) # NoText
  /\ \A i \in DOMAIN t : t[i] \notin Indic
  /\ Len(SelectSeq(t, LAMBDA c : c \in Latin)) * 100
       >= 30 * Len(SelectSeq(t, LAMBDA c : c \notin Whitespace))
InputChunk == last'.arg

AnalyticsKinds ==
  {{"sentiment"}, {"analysis", "cacheAnalytics"}, {"coaching", "cacheCoaching"}}
RECURSIVE CountTasks(_, _)
CountTasks(ts, kinds) ==
  IF ts = {} THEN 0
  ELSE LET t == CHOOSE x \in ts : TRUE
       IN (IF t.kind \in kinds THEN CopiesIn(t, tasks) ELSE 0) + CountTasks(ts \ {t}, kinds)
InFlight(kinds) == CountTasks(BagToSet(tasks), kinds)

\* C23: at most one analytics task of each kind (sentiment, analysis,
\* coaching) is in flight for the session at any time.
C23_OneTaskInFlightPerKind ==
  \A kinds \in AnalyticsKinds : InFlight(kinds) <= 1

\* the handlers that append a customer entry and start analytics for it
AnalyticsTriggers == {"input_transcription", "customer_transcript", "inject_context"}
Appended ==
  LET old == TranscriptOf(HasSession(SessionId), sessions)
      new == TranscriptOf(SessionId \in DOMAIN sessions', sessions')
  IN SubSeq(new, Len(old) + 1, Len(new))

\* C24: a failing analytics call of a handler never keeps the triggering
\* message from being appended and routed: a step of a handler that starts
\* analytics for a customer message appends the message to the transcript
\* and writes it as customer_message to every open supervisor.
C24_AnalyticsFailureDoesNotStopRouting ==
  [][(pc.at = "idle" /\ last'.ev \in AnalyticsTriggers
        /\ \E t \in BagToSet(tasks') : t.kind = "sentiment" /\ CopiesIn(t, tasks') > CopiesIn(t, tasks)) =>
       /\ Len(Appended) = 1
       /\ Appended[1].role = "customer"
       /\ \A u \in SupWs : sup[u] = "open" => CustomerMessageTo(sent', u, Appended[1].content)]_vars

EventTo(out, u, type) == \E i \in DOMAIN out : out[i].to = u /\ out[i].type = type
EventBefore(out, u, first, second) ==
  \A i, j \in DOMAIN out :
    (out[i].to = u /\ out[i].type = first /\ out[j].to = u /\ out[j].type = second) => i < j

\* C25: the step that applies a sentiment result stores its level in the
\* session and writes frustration_update to every open supervisor; it writes
\* escalation_alert exactly when the level is at least 70 or the sentiment
\* is frustrated or angry, and after the frustration_update.
C25_AlertIffThreshold ==
  [][(last'.ev = "sentiment_done") =>
       \A u \in SupWs : sup[u] = "open" =>
         /\ EventTo(sent', u, "frustration_update")
         /\ EventTo(sent', u, "escalation_alert")
              <=> (S'.frustrationLevel >= 70 \/ last'.arg \in {"frustrated", "angry"})
         /\ EventBefore(sent', u, "frustration_update", "escalation_alert")]_vars

SessionEndedTo(out, c) ==
  \E i \in DOMAIN out : out[i].to = c /\ out[i].type = "session_ended"

\* C26: a provider error on a session in human mode leaves status and mode
\* as they are and is reported to the controller with the session id; a
\* provider error on a session in ai mode without a controller ends the
\* session and tells the customer session_ended.
C26_ProviderErrorEndsAiSession ==
  [][(last'.ev = "gemini_error") =>
       /\ (S.mode = "human" /\ SupervisorOpen(S)) =>
            /\ S'.status = S.status /\ S'.mode = "human"
            /\ sent' = <<Plain(S.supervisorWs, "error", SessionId)>>
       /\ (S.mode = "ai" /\ NoController(S) /\ S.status = "active") =>
            /\ S'.status = "ended"
            /\ CustomerOpen(S) => SessionEndedTo(sent', S.customerWs)]_vars

BroadcastTypes ==
  {"session_update", "ai_response", "customer_message", "frustration_update",
   "escalation_alert", "analytics_update", "coaching_update"}
\* the broadcast events written to socket u, without the addressee
BroadcastsTo(out, u) ==
  LET sel == SelectSeq(out, LAMBDA m : m.to = u /\ m.type \in BroadcastTypes)
  IN [i \in 1..Len(sel) |-> [sel[i] EXCEPT !.to = NULL]]
Attached(u) == \E i \in DOMAIN supervisors : supervisors[i] = u
\* the event that the handler of the step broadcasts first
BroadcastOf(ev) ==
  CASE ev = "response" -> "ai_response"
    [] ev = "customer_transcript" -> "customer_message"
    [] ev = "sentiment_done" -> "frustration_update"
    [] OTHER -> NULL

SessionPayloadTypes == {"session_update", "sessions_list"}

\* C28: every session payload written to a supervisor (the entry of a
\* sessions_list and the data of every session_update, that of end_call
\* included) is the snapshot made by serializeSession.
C28_SessionPayloadIsSnapshot ==
  [][\A i \in DOMAIN sent' :
       (sent'[i].to \in SupWs /\ sent'[i].type \in SessionPayloadTypes
          /\ sent'[i].data # "empty") =>
         sent'[i].data = "snapshot"]_vars

\* C29: when a handback with empty context completes on a session that had
\* been taken over, the session is as it was before the takeover (mode ai,
\* no controller socket or id, binding not paused, transcript untouched by
\* the handback), and the takeover has been counted in
\* supervisorInterventions.
C29_TakeoverHandbackRoundTrip ==
  [][(pc.at = "handback_notify" /\ pc.arg = "" /\ pc'.at = "idle"
        /\ S.takenOverBy # NULL) =>
       /\ S'.mode = "ai"
       /\ NoController(S')
       /\ S'.takenOverBy = NULL
       /\ ~S'.geminiSession.isPaused
       /\ S'.transcript = S.transcript
       /\ supervisorInterventions(S') >= 1]_vars

RowsOf(rows, id) == Len(SelectSeq(rows, LAMBDA r : r = id))

\* C30: call_summaries never holds more than one row for the session id,
\* whatever the order of end_call, customer connects and customer closes;
\* and every step of an end_call that is applied to a session whose status
\* is already ended leaves the session (all of its fields), the customer
\* sockets and the table as they are.
C30_OneSummaryRowAndEndCallIdempotent ==
  [][/\ RowsOf(callSummaries', SessionId) <= 1
     /\ (HasSession(SessionId) /\ S.status = "ended"
           /\ \/ (pc.at = "idle" /\ last'.ev = "end_call")
              \/ pc.at \in {"end_call_update", "end_call_ack"}) =>
          /\ sessions' = sessions
          /\ cust' = cust
          /\ callSummaries' = callSummaries]_vars

\* C31: supervisorInterventions counts the takeovers of the session: while
\* the session is taken over (a takeover has completed and recorded
\* takenOverBy), the count that the summary row would record is at least one.
C31_InterventionsCountTakeovers ==
  (HasSession(SessionId) /\ pc = Idle /\ S.takenOverBy # NULL) =>
    supervisorInterventions(S) >= 1

GetSessionsHandled(l) ==
  \/ l.ev = "get_sessions"
  \/ l.ev = "session_not_found" /\ l.arg = "get_sessions"
SessionsListTo(out, u) ==
  \E i \in DOMAIN out : out[i].to = u /\ out[i].type = "sessions_list"

\* C32: every get_sessions message of a supervisor, with or without a
\* session id and with or without an existing session, is answered with a
\* sessions_list written to that supervisor.
C32_GetSessionsAnswered ==
  [][GetSessionsHandled(last') => SessionsListTo(sent', last'.ws)]_vars

\* C33: the binding of a session does not stay in the connecting state
\* beyond the connect timeout of 10 s: ten seconds after initialize() was
\* called (when the session was created) the binding is ready or failed.
C33_InitializeTimesOut ==
  (HasSession(SessionId) /\ BindingState(S.geminiSession) = "connecting") =>
    now - S.createdAt < 10000

\* C34: once a provider message that carries turnComplete has been
\* processed, the output buffer is empty, so that no text of the finished
\* turn is left to be emitted with the text of a later turn.
C34_TurnCompleteEmptiesOutputBuffer ==
  [][TurnCompleteHandled(sent') => live'.transcriptionBuffer = NoText]_vars

FallbackOutcomes == {"unparseable", "rejected"}

\* C35: when the analysis falls back to the keyword classifier, the intent
\* is that of the classifier applied to the concatenated transcript, and it
\* is the same whether the provider call was rejected or its answer could
\* not be parsed.
C35_FallbackIntentSameOnBothPaths ==
  [][(last'.ev = "analyze_conversation" /\ last'.arg \in FallbackOutcomes) =>
       \A outcome \in FallbackOutcomes :
         sent'[1].data = analyzeConversation(S.transcript, outcome)]_vars

HandbackNotices == {"mode_change", "session_update"}
Connected(g) == g.isActive /\ g.ws = "open"

\* C36: in a handback the binding is resumed before the context prompt is
\* sent: the step that injects a non-empty context finds the binding not
\* paused and writes the prompt to the provider whenever the binding is
\* connected, and it writes neither mode_change nor session_update; these
\* are written by the step after it, which writes nothing to the provider.
C36_HandbackResumesBeforePrompt ==
  [][/\ pc.at = "handback_inject" =>
          /\ pc'.at = "handback_notify"
          /\ ~Binding.isPaused
          /\ (pc.arg # "" /\ Connected(Binding)) =>
               sent' = <<Plain("provider", "client_content", pc.arg)>>
          /\ \A i \in DOMAIN sent' : sent'[i].type \notin HandbackNotices
     /\ pc.at = "handback_notify" =>
          /\ CustomerOpen(S) =>
               sent'[1] = Msg(S.customerWs, "mode_change", NULL, "ai", NULL)
          /\ \A u \in SupWs :
               (Attached(u) /\ sup[u] = "open") => EventTo(sent', u, "session_update")
          /\ \A i \in DOMAIN sent' : sent'[i].type \in HandbackNotices]_vars

\* C36 witness: a session that was taken over (and so paused) is handed
\* back with a context; the prompt has been written to the provider and
\* the notifications are still to be sent.
C36_Witness ==
  /\ pc.at = "handback_notify"
  /\ pc.arg = "ctx"
  /\ S.takenOverBy # NULL
  /\ CustomerOpen(S)
  /\ sent = <<Plain("provider", "client_content", "ctx")>>

\* the step makes the binding emit "response", "input_transcription" or
\* "audio" to the handlers of the session
BindingEmits ==
  \/ last'.ev \in {"response", "input_transcription"}
  \/ last'.ev = "gemini_audio" /\ ~handleMessageDrops(Binding)

\* C37: once close() of the binding has been called, no step makes the
\* binding emit a response, audio or input_transcription event, so no
\* transcript entry is appended by one afterwards.
C37_CloseIsTerminal ==
  [][(HasSession(SessionId) /\ Binding.closeCalled) => ~BindingEmits]_vars

\* C38: in every state with mode human the controlling supervisor socket
\* recorded in the session is attached to the supervisor list.
C38_ControllerAttachedInHumanMode ==
  (HasSession(SessionId) /\ S.mode = "human") => Attached(S.supervisorWs)

\* the utterances of the customer, in the order of the transcript
CustomerUtterances == SelectSeq(S.transcript, LAMBDA m : m.role = "customer")

\* C39: when no sentiment task of the session is pending, the frustration
\* level of the session is the result of the task that was started for the
\* most recent utterance of the customer, in whatever order the tasks have
\* completed.
C39_LevelOfMostRecentUtterance ==
  (HasSession(SessionId) /\ CustomerUtterances # <<>> /\ Pending("sentiment") = {}) =>
    S.frustrationLevel =
      analyzeSentiment(CustomerUtterances[Len(CustomerUtterances)].content).frustrationLevel

AttachedOnce(c) == cust[c] # "new"

\* C40: for any number of customer attaches, a response event appends
\* exactly one transcript entry and is written once to the open customer
\* and once to every open attached supervisor; an input_transcription event
\* appends exactly one entry and starts exactly one sentiment, one analysis
\* and one coaching task.
C40_HandlersRegisteredOnce ==
  [][/\ last'.ev = "response" =>
          /\ S'.transcript = Append(S.transcript, [role |-> "ai", content |-> last'.arg])
          /\ sent' = onResponse(S, last'.arg)
     /\ last'.ev = "input_transcription" =>
          /\ S'.transcript = Append(S.transcript, [role |-> "customer", content |-> last'.arg])
          /\ BagCardinality(tasks') = BagCardinality(tasks) + 2
          /\ \A i \in DOMAIN inputTranscriptionTasks(last'.arg) :
               CopiesIn(inputTranscriptionTasks(last'.arg)[i], tasks') =
                 CopiesIn(inputTranscriptionTasks(last'.arg)[i], tasks) + 1]_vars

\* C40 witness: both customer sockets have attached to the session, and an
\* input_transcription event has appended the second entry of the
\* transcript, after a response, and started its three tasks.
C40_Witness ==
  /\ \A c \in CustWs : AttachedOnce(c)
  /\ last.ev = "input_transcription"
  /\ Len(S.transcript) = 2
  /\ S.transcript[1].role = "ai"
  /\ BagCardinality(tasks) = 3

====
